---- MODULE Spec2Model ----
(***************************************************************************)
(* Model of applyAuthTokenInterceptor (src/src/index.ts): the response      *)
(* error handler, the wait queue (failedQueue), the isRefreshing flag, the  *)
(* refresh procedure performRefresh with its timeout race, and the Web      *)
(* Locks wrapper.  One action is one event-loop step: the synchronous code  *)
(* that runs between two suspension points (await / timer / response).      *)
(***************************************************************************)
EXTENDS Integers, Sequences, FiniteSets, TLC

\* ------------------------------------------------------------------ bounds
\* Number of requests the call sites send.
NReq == 2

Req == 1..NReq
\* Every cycle stamps the retry marker on its trigger and a marked request
\* never triggers again, so at most NReq cycles ever start.
Cyc == 1..NReq
Inst == {1, 2}

\* ------------------------------------------------------- program constants
DefaultTimeoutMs == 30000
Unauthorized == 401

\* Response statuses a request attempt can end with; 0 is "no response"
\* (error.response undefined, e.g. a network error).
Statuses == {200, 401, 403, 0}
\* The statuses a replayed attempt is answered with.
ReplayStatuses == {200, 401, 0}

\* Credentials.  "old" is the expired access token, "sib" one a sibling
\* context persisted, TokenNames[c] the one the renewal of cycle c returns.
NoToken == ""
OldToken == "old"
SiblingToken == "sib"
TokenNames == <<"t1", "t2", "t3", "t4">>
NewToken(c) == TokenNames[c]

VARIABLES
    cfg,           \* the AuthInterceptorConfig and the environment (navigator.locks)
    owner,         \* owner[r]: the installation whose client sends request r
    isRefreshing,  \* isRefreshing[i], the closure variable of installation i
    failedQueue,   \* failedQueue[i], sequence of FailedRequest entries
    rq,            \* rq[r]: request descriptor r, its caller's promise (st) and
                   \* the error of its attempt or the value it was rejected with (val)
    cyc,           \* cyc[c]: the c-th started refresh cycle (performRefresh instance)
    nCycles,       \* number of cycles started so far
    entries,       \* history: every FailedRequest entry created, by id
    lock,          \* holder of the named Web Lock (a cycle), 0 when free
    storage,       \* the persisted access token (shared by all contexts)
    log            \* history: collaborator calls and queue continuations, in order

vars == <<cfg, owner, isRefreshing, failedQueue, rq, cyc, nCycles, entries,
          lock, storage, log>>

\* ------------------------------------------------------------------ values
Err(kind, n) == [kind |-> kind, n |-> n]
NoErr == Err("none", 0)
\* The AxiosError of a failed attempt with status s.
HttpError(s) == Err(IF s = 0 THEN "network" ELSE "http", s)
\* What a throwing collaborator throws, and the TypeError of reading
\* a property of null/undefined.
Thrown == Err("thrown", 0)
\* Values requestRefresh may reject with: an Error object, a falsy
\* non-nullish value (0, "", false), and null or undefined ("nullish":
\* the code treats the two alike everywhere).
RejectValues == {Err("Error", 0), Err("zero", 0), Err("nullish", 0)}

\* JavaScript truthiness of a rejection value.
Truthy(v) == v.kind \notin {"none", "zero", "nullish"}
Nullish(v) == v.kind = "nullish"

Max0(S) == IF S = {} THEN 0 ELSE CHOOSE x \in S : \A y \in S : y <= x

Ev(ev, c, e, r, tok, val) ==
    [ev |-> ev, cyc |-> c, ent |-> e, req |-> r, tok |-> tok, val |-> val]

\* ----------------------------------------------------------- configuration
\* refreshTimeout is [set |-> FALSE, ms |-> 0] when omitted.
Timeout(set, ms) == [set |-> set, ms |-> ms]

DefaultConfig ==
    [locks |-> FALSE,           \* navigator.locks exists
     check |-> FALSE,           \* checkTokenIsValid configured
     getRT |-> "absent",        \* getRefreshToken: absent, or what it returns
     attach |-> FALSE,          \* attachTokenToRequest configured
     refreshTimeout |-> Timeout(FALSE, 0),
     codes |-> FALSE,           \* statusCodes configured as [401, 403]
     throws |-> FALSE,          \* collaborator callbacks may throw
     reads |-> FALSE,           \* checkTokenIsValid returns the persisted token
                                \* whenever one was persisted
     handler |-> FALSE]         \* headerTokenHandler configured: it writes the
                                \* persisted token into the Authorization header

\* A browser tab with cross-tab synchronisation set up, refreshTimeout: 0.
BrowserConfig ==
    [DefaultConfig EXCEPT !.locks = TRUE, !.check = TRUE, !.getRT = "string",
                          !.refreshTimeout = Timeout(TRUE, 0)]
\* Custom attacher, custom status codes, explicit timeout, no stored refresh token.
CustomConfig ==
    [DefaultConfig EXCEPT !.attach = TRUE, !.codes = TRUE, !.getRT = "null",
                          !.refreshTimeout = Timeout(TRUE, 100)]
Configs == {DefaultConfig, BrowserConfig, CustomConfig}
\* Browser tabs whose onSuccess persists the credential in shared storage
\* and whose checkTokenIsValid reads it back.
TabConfig == [BrowserConfig EXCEPT !.reads = TRUE]
\* A browser tab whose collaborators (onSuccess, attachTokenToRequest,
\* checkTokenIsValid) may throw.
ThrowConfig == [BrowserConfig EXCEPT !.attach = TRUE, !.throws = TRUE]
\* A browser tab with a headerTokenHandler that reads the storage.
HeaderConfig == [BrowserConfig EXCEPT !.handler = TRUE]

\* const TIMEOUT_MS = config.refreshTimeout || 30000
TIMEOUT_MS ==
    IF cfg.refreshTimeout.set /\ cfg.refreshTimeout.ms # 0
    THEN cfg.refreshTimeout.ms
    ELSE DefaultTimeoutMs

\* A timeout error whose message does not carry the duration.
TimeoutError_NoValue == Err("timeout", 0)

\* new Error(`Refresh token timed out after ${TIMEOUT_MS}ms`)
TimeoutError == Err("timeout", TIMEOUT_MS)

\* The decimal numeral of n, as template interpolation writes it.
RECURSIVE Digits(_)
Digits(n) == IF n < 10 THEN <<n>> ELSE Append(Digits(n \div 10), n % 10)

\* The numeral the message of a timeout error carries between "after "
\* and "ms".
TimeoutMessage(e) == Digits(e.n)

\* String.prototype.includes on numerals.
Contains(str, sub) ==
    \E k \in 0..(Len(str) - Len(sub)) : SubSeq(str, k + 1, k + Len(sub)) = sub

\* const statusCodes = config.statusCodes || [401]
statusCodes == IF cfg.codes THEN {Unauthorized, 403} ELSE {Unauthorized}

\* An argument that is passed on as getRefreshToken returned it.
RefreshArg_Raw ==
    IF cfg.getRT = "string" THEN "rt"
    ELSE IF cfg.getRT = "null" THEN "null" ELSE "undefined"

\* let refreshToken = getRefreshToken ? getRefreshToken() : undefined;
\* if (refreshToken === null) refreshToken = undefined;
RefreshArg == IF cfg.getRT = "string" THEN "rt" ELSE "undefined"

\* ------------------------------------------------------- failure classifier
\* A classifier that does not look at the retry marker.
Propagated_IgnoreMarker(r, s) ==
    \/ rq[r].skip
    \/ s = 0
    \/ s \notin statusCodes

\* A classifier that does not look at skipAuthRefresh.
Propagated_IgnoreSkip(r, s) ==
    \/ s = 0
    \/ s \notin statusCodes
    \/ rq[r].retry

\* A classifier that does not look at the response.
Propagated_IgnoreStatus(r, s) ==
    \/ rq[r].skip
    \/ rq[r].retry

\* The two early returns of the response error handler: the failure is
\* propagated (Promise.reject(error)) when this holds.
Propagated(r, s) ==
    \/ rq[r].skip
    \/ s = 0
    \/ s \notin statusCodes
    \/ rq[r].retry

\* A handler whose flag is shared by every installation.
ShouldQueue_Shared(i) == \E j \in Inst : isRefreshing[j]

\* A handler that never takes the "refresh already in progress" branch.
ShouldQueue_Never(i) == FALSE

\* if (isRefreshing) { ... failedQueue.push(...) }
ShouldQueue(i) == isRefreshing[i]

\* ------------------------------------------------------------ token attacher
\* An attacher that leaves the request as it was.
attachToken_Noop(request, token) == request

\* An attacher that writes the default header as well as the custom one.
attachToken_Both(request, token) == [request EXCEPT !.auth = token, !.xkey = token]

defaultAttachToken(request, token) == [request EXCEPT !.auth = token]
customAttachToken(request, token) == [request EXCEPT !.xkey = token]
attachToken(request, token) ==
    IF cfg.attach THEN customAttachToken(request, token)
    ELSE defaultAttachToken(request, token)

\* A handler that writes the credential the request was first sent with.
headerTokenHandler_Stale(request, stored) == [request EXCEPT !.auth = OldToken]

\* headerTokenHandler as the README sets it up:
\*   const token = <storage>; if (token) request.headers.Authorization = ...
headerTokenHandler(request, stored) ==
    IF stored # NoToken THEN [request EXCEPT !.auth = stored] ELSE request

\* The credential a request descriptor carries, read from the header the
\* configured attacher writes.
Credential(request) == IF cfg.attach THEN request.xkey ELSE request.auth

\* --------------------------------------------------------------- wait queue
\* A FailedRequest entry.  cyc and during are history: the cycle the
\* entry belongs to, and the earliest cycle of its installation still
\* running when it was created.
Entry(id, r, c, d) == [id |-> id, req |-> r, cyc |-> c, during |-> d]

\* An entry's promise is settled once one of its continuations has run.
Settled(lg, id) ==
    \E k \in 1..Len(lg) : lg[k].ev \in {"replay", "reject"} /\ lg[k].ent = id

\* One iteration of failedQueue.forEach in processQueue, on the entry at
\* position k.  m = [rq, log, q, threw]; throwAt is the position at which
\* the token attacher throws (0: it never throws).
RECURSIVE forEach(_, _, _, _, _, _)
forEach(m, k, error, token, c, throwAt) ==
    IF k > Len(m.q) THEN m
    ELSE LET prom == m.q[k]
             r == prom.req
             open == ~Settled(m.log, prom.id)
         IN IF Truthy(error)
            THEN \* prom.reject(error)
                 forEach([m EXCEPT
                            !.log = Append(@, Ev("reject", c, prom.id, r, NoToken, error)),
                            !.rq = IF open
                                   THEN [@ EXCEPT ![r].st = "err", ![r].val = error]
                                   ELSE @],
                         k + 1, error, token, c, throwAt)
            ELSE IF token # NoToken /\ k = throwAt
            THEN \* attachToken throws: the exception leaves forEach
                 [m EXCEPT !.threw = TRUE]
            ELSE LET attached == IF token # NoToken
                                 THEN attachToken(m.rq[r], token)
                                 ELSE m.rq[r]
                     lg1 == IF token # NoToken
                            THEN Append(m.log, Ev("attach", c, prom.id, r, token, NoErr))
                            ELSE m.log
                 IN \* prom.resolve(axiosInstance(prom.config))
                    forEach([m EXCEPT
                               !.log = Append(lg1, Ev("replay", c, prom.id, r,
                                                      Credential(attached), NoErr)),
                               !.rq = [@ EXCEPT ![r] =
                                         [attached EXCEPT !.st = "flight",
                                                          !.att = @ + 1,
                                                          !.val = NoErr]]],
                            k + 1, error, token, c, throwAt)

\* A processQueue that forgets to empty the queue.
ClearedQueue_Kept(q) == q

\* failedQueue = [] once forEach has returned.
ClearedQueue(q) == <<>>

\* processQueue(error, token)
processQueue(m, error, token, c, throwAt) ==
    LET d == forEach([m EXCEPT !.threw = FALSE], 1, error, token, c, throwAt)
    IN IF d.threw THEN d ELSE [d EXCEPT !.q = ClearedQueue(d.q)]

\* --------------------------------------------------------- refresh procedure
\* What a throwing collaborator does in one drain: onSuccess throws (onS),
\* the attacher throws at queue position at (0: never).
ThrowChoices(q) ==
    IF cfg.throws
    THEN {[onS |-> b, at |-> k] : b \in BOOLEAN, k \in 0..Len(q)}
    ELSE {[onS |-> FALSE, at |-> 0]}

\* A catch block that rejects the queue and tells nobody.
CatchPath_Silent(m, err, c) ==
    IF Nullish(err) THEN m ELSE processQueue(m, err, NoToken, c, 0)

\* catch (err) { log(.., err.message); processQueue(err, null); onFailure(err) }
\* Reading err.message of null/undefined throws a TypeError out of the
\* catch block, before processQueue and onFailure.
CatchPath(m, err, c) ==
    IF Nullish(err) THEN m
    ELSE LET d == processQueue(m, err, NoToken, c, 0)
         IN [d EXCEPT !.log = Append(@, Ev("onFailure", c, 0, 0, NoToken, err))]

\* A success path that drains the queue before it calls onSuccess.
SuccessPath_DrainFirst(m, tok, c, t) ==
    LET d == processQueue(m, NoErr, tok, c, t.at)
    IN IF d.threw THEN CatchPath(d, Thrown, c)
       ELSE [d EXCEPT !.log = Append(@, Ev("onSuccess", c, 0, 0, tok, NoErr))]

\* config.onSuccess(newTokens); processQueue(null, newTokens.accessToken)
SuccessPath(m, tok, c, t) ==
    LET m1 == [m EXCEPT !.log = Append(@, Ev("onSuccess", c, 0, 0, tok, NoErr))]
    IN IF t.onS THEN CatchPath(m1, Thrown, c)
       ELSE LET d == processQueue(m1, NoErr, tok, c, t.at)
            IN IF d.threw THEN CatchPath(d, Thrown, c) ELSE d

\* A short-circuit that goes through the success path of the renewal.
ShortCircuit_ViaSuccessPath(m, tok, c, t) == SuccessPath(m, tok, c, t)

\* processQueue(null, validToken); return   (the cross-tab short-circuit)
ShortCircuit(m, tok, c, t) ==
    LET d == processQueue(m, NoErr, tok, c, t.at)
    IN IF d.threw THEN CatchPath(d, Thrown, c) ELSE d

\* A refresh procedure whose flag reset is missing.
FlagAfterFinally_Kept == TRUE

\* finally { isRefreshing = false }
FlagAfterFinally == FALSE

\* What checkTokenIsValid may return, given the persisted token: null,
\* false or an empty string, or the token when storage holds a renewed one.
CheckVal(k, tok) == [k |-> k, tok |-> tok]
CheckResults ==
    (IF cfg.reads /\ storage \notin {OldToken, NoToken}
     THEN {}
     ELSE {CheckVal("null", NoToken), CheckVal("false", NoToken),
           CheckVal("string", NoToken)})
    \cup (IF storage \notin {OldToken, NoToken}
          THEN {CheckVal("string", storage)} ELSE {})
    \cup (IF cfg.throws THEN {CheckVal("throw", NoToken)} ELSE {})

\* A test that accepts every string, the empty one included.
ValidString_AnyString(v) == v.k = "string"

\* if (validToken && typeof validToken === "string")
ValidString(v) == v.k = "string" /\ v.tok # NoToken

\* A cycle: its installation, the position of performRefresh (pc), what
\* the validity check returned (validToken), the timer and the
\* requestRefresh call of its race, the argument passed to requestRefresh,
\* and how the procedure left the try block (out, err).
IdleCycle == [inst |-> 0, pc |-> "none", validToken |-> CheckVal("none", NoToken),
              timer |-> "none", call |-> "none",
              arg |-> "none", out |-> "none", err |-> NoErr]

\* The machine record the drain operators work on, for installation i.
Machine(i) == [rq |-> rq, log |-> log, q |-> failedQueue[i], threw |-> FALSE]

\* Steps 2-3 of performRefresh up to the await of Promise.race: read the
\* refresh token, arm the timer, invoke requestRefresh.
StartRace(cy, c, lg) ==
    [cy |-> [cy EXCEPT !.pc = "race", !.timer = "armed", !.call = "pending",
                       !.arg = RefreshArg],
     log |-> Append(lg, Ev("refresh", c, 0, 0, NoToken, NoErr))]

\* performRefresh from its start to its first await.
Begin(cy, c, lg) ==
    IF cfg.check
    THEN [cy |-> [cy EXCEPT !.pc = "check"],
          log |-> Append(lg, Ev("check", c, 0, 0, NoToken, NoErr))]
    ELSE StartRace(cy, c, lg)

\* The replays a drain has submitted in this step, in order.
IsReplay(x) == x.ev = "replay"
Resubmitted(m) == SelectSeq(SubSeq(m.log, Len(log) + 1, Len(m.log)), IsReplay)

\* The end of performRefresh: the state a drain left, the finally block,
\* and the release of the lock when this cycle holds it.  validToken is a
\* local of the procedure: a value that was not reused is dropped with it.
\* The request interceptor of each replay submitted by the drain runs
\* next, in the microtasks that follow this synchronous block and before
\* any other task: headerTokenHandler sees the storage as the cycle left it.
Finish(c, cy, m, st) ==
    LET i == cyc[c].inst
        sent == Resubmitted(m)
    IN /\ rq' = [r \in Req |->
                  IF cfg.handler /\ \E k \in 1..Len(sent) : sent[k].req = r
                  THEN headerTokenHandler(m.rq[r], st)
                  ELSE m.rq[r]]
       /\ log' = Append(m.log, Ev("finally", c, 0, 0, NoToken, NoErr))
                 \o (IF cfg.handler
                     THEN [k \in 1..Len(sent) |->
                             Ev("header", c, sent[k].ent, sent[k].req, st, NoErr)]
                     ELSE <<>>)
       /\ failedQueue' = [failedQueue EXCEPT ![i] = m.q]
       /\ isRefreshing' = [isRefreshing EXCEPT ![i] = FlagAfterFinally]
       /\ cyc' = [cyc EXCEPT ![c] =
                    [cy EXCEPT !.pc = "done",
                               !.validToken = IF ValidString(@) THEN @
                                              ELSE CheckVal("none", NoToken)]]
       /\ lock' = IF lock = c THEN 0 ELSE lock
       /\ storage' = st
       /\ UNCHANGED <<cfg, owner, nCycles, entries>>

\* The earliest cycle of installation i that has not finished, c if none.
Running(i, c) ==
    LET S == {k \in 1..nCycles : cyc[k].inst = i /\ cyc[k].pc # "done"}
    IN IF S = {} THEN c ELSE CHOOSE x \in S : \A y \in S : x <= y

\* ------------------------------------------------------------------ actions
\* A request as its call site sent it: in flight, carrying the expired
\* credential; sk is its skipAuthRefresh flag.
NewRequest(sk) == [st |-> "flight", att |-> 1, retry |-> FALSE, skip |-> sk,
                   auth |-> OldToken, xkey |-> NoToken, val |-> NoErr]

\* The requests are sent at once; the last one may opt out of the flow.
Requests == {[r \in Req |-> NewRequest(r = NReq /\ sk)] : sk \in BOOLEAN}

InitWith(configs, owners) ==
    /\ cfg \in configs
    /\ owner \in owners
    /\ isRefreshing = [i \in Inst |-> FALSE]
    /\ failedQueue = [i \in Inst |-> <<>>]
    /\ rq \in Requests
    /\ cyc = [c \in Cyc |-> IdleCycle]
    /\ nCycles = 0
    /\ entries = <<>>
    /\ lock = 0
    /\ storage = IF cfg.check /\ ~cfg.reads THEN SiblingToken ELSE OldToken
    /\ log = <<>>

Init == InitWith(Configs, {[r \in Req |-> 1]})

\* The server accepts a request that opted out of the flow (a public
\* endpoint) or carries a renewed credential, never the expired one.
CanSucceed(r) == rq[r].skip \/ Credential(rq[r]) \notin {OldToken, NoToken}

\* The statuses the current attempt of request r can be answered with.
Answers(r) == IF rq[r].att = 1 THEN Statuses ELSE ReplayStatuses

\* (response) => response
ResponseOk(r) ==
    /\ rq[r].st = "flight"
    /\ CanSucceed(r)
    /\ rq' = [rq EXCEPT ![r].st = "ok"]
    /\ UNCHANGED <<cfg, owner, isRefreshing, failedQueue, cyc, nCycles, entries,
                   lock, storage, log>>

\* The error handler's early returns: return Promise.reject(error)
Propagate(r, s) ==
    /\ rq[r].st = "flight"
    /\ s \in Answers(r) \ {200}
    /\ Propagated(r, s)
    /\ rq' = [rq EXCEPT ![r].st = "err", ![r].val = HttpError(s)]
    /\ UNCHANGED <<cfg, owner, isRefreshing, failedQueue, cyc, nCycles, entries,
                   lock, storage, log>>

\* A classified failure while a refresh is in progress joins the queue.
Join(r, s) ==
    LET i == owner[r]
        c == Max0({k \in 1..nCycles : cyc[k].inst = i})
        e == Entry(Len(entries) + 1, r, c, Running(i, c))
    IN /\ rq[r].st = "flight"
       /\ s \in Answers(r) \ {200}
       /\ ~Propagated(r, s)
       /\ ShouldQueue(i)
       /\ entries' = Append(entries, e)
       /\ failedQueue' = [failedQueue EXCEPT ![i] = Append(@, e)]
       /\ rq' = [rq EXCEPT ![r].st = "held", ![r].val = HttpError(s)]
       /\ UNCHANGED <<cfg, owner, isRefreshing, cyc, nCycles, lock, storage, log>>

\* A classified failure while no refresh is in progress starts one.
Trigger(r, s) ==
    LET i == owner[r]
        c == nCycles + 1
        cy == [IdleCycle EXCEPT !.inst = i, !.pc = "lock"]
        e == Entry(Len(entries) + 1, r, c, Running(i, c))
        b == IF cfg.locks THEN [cy |-> cy, log |-> log] ELSE Begin(cy, c, log)
    IN /\ rq[r].st = "flight"
       /\ s \in Answers(r) \ {200}
       /\ ~Propagated(r, s)
       /\ ~ShouldQueue(i)
       /\ nCycles' = c
       /\ entries' = Append(entries, e)
       /\ rq' = [rq EXCEPT ![r].retry = TRUE, ![r].st = "held",
                            ![r].val = HttpError(s)]
       /\ isRefreshing' = [isRefreshing EXCEPT ![i] = TRUE]
       /\ failedQueue' = [failedQueue EXCEPT ![i] = Append(@, e)]
       /\ cyc' = [cyc EXCEPT ![c] = b.cy]
       /\ log' = b.log
       /\ UNCHANGED <<cfg, owner, lock, storage>>

\* A lock manager that grants the lock while it is held.
LockAvailable_Always == TRUE

\* The named lock is granted when no context holds it.
LockAvailable == lock = 0

\* navigator.locks.request(LOCK_KEY, ...) grants the lock, in request
\* order, and the callback starts performRefresh.
LockGrant(c) ==
    LET b == Begin(cyc[c], c, log)
    IN /\ cyc[c].pc = "lock"
       /\ LockAvailable
       /\ \A k \in 1..(c - 1) : cyc[k].pc # "lock"
       /\ lock' = c
       /\ cyc' = [cyc EXCEPT ![c] = b.cy]
       /\ log' = b.log
       /\ UNCHANGED <<cfg, owner, isRefreshing, failedQueue, rq, nCycles, entries,
                      storage>>

\* await config.checkTokenIsValid() settles with some value v.
CheckReturn(c) ==
    LET i == cyc[c].inst
    IN /\ cyc[c].pc = "check"
       /\ \E v \in CheckResults :
          LET cy == [cyc[c] EXCEPT !.validToken = v]
              b == StartRace(cy, c, log)
          IN
          IF ValidString(v)
          THEN \E t \in ThrowChoices(failedQueue[i]) :
                  Finish(c, [cy EXCEPT !.out = "reused"],
                         ShortCircuit(Machine(i), v.tok, c, t), storage)
          ELSE IF v.k = "throw"
          THEN Finish(c, [cy EXCEPT !.out = "threw", !.err = Thrown],
                      CatchPath(Machine(i), Thrown, c), storage)
          ELSE /\ cyc' = [cyc EXCEPT ![c] = b.cy]
               /\ log' = b.log
               /\ UNCHANGED <<cfg, owner, isRefreshing, failedQueue, rq, nCycles,
                              entries, lock, storage>>

\* requestRefresh resolves before the timer fires: the race is won by
\* the renewal, with the token pair it returned.
RenewalResolves(c) ==
    LET i == cyc[c].inst
        tok == NewToken(c)
    IN /\ cyc[c].pc = "race"
       /\ cyc[c].call = "pending"
       /\ \E t \in ThrowChoices(failedQueue[i]) :
             Finish(c, [cyc[c] EXCEPT !.call = "settled", !.out = "resolved"],
                    SuccessPath(Machine(i), tok, c, t),
                    IF t.onS THEN storage ELSE tok)

\* requestRefresh rejects with v before the timer fires.
RenewalRejects(c, v) ==
    LET i == cyc[c].inst
    IN /\ cyc[c].pc = "race"
       /\ cyc[c].call = "pending"
       /\ v \in RejectValues
       /\ Finish(c, [cyc[c] EXCEPT !.call = "settled", !.out = "rejected", !.err = v],
                 CatchPath(Machine(i), v, c), storage)

\* The timer fires before requestRefresh settles: the race rejects with
\* the timeout error.
TimerFires(c) ==
    LET i == cyc[c].inst
    IN /\ cyc[c].pc = "race"
       /\ cyc[c].timer = "armed"
       /\ Finish(c, [cyc[c] EXCEPT !.timer = "fired", !.out = "timeout",
                                    !.err = TimeoutError],
                 CatchPath(Machine(i), TimeoutError, c), storage)

\* The loser of a settled Promise.race settles later: the abandoned
\* requestRefresh call, or the timer that is never cleared.  Neither
\* callback touches the closure state; the step is tracked while another
\* cycle is running, which is when it could interfere.
LaterCycleRunning(c) == \E k \in Cyc : k # c /\ cyc[k].pc \notin {"none", "done"}

\* A late settlement that runs the end of the procedure once more.
LateSettlement_Resets(c) == [isRefreshing EXCEPT ![cyc[c].inst] = FALSE]

\* The flag after the loser of the race has settled: Promise.race has no
\* continuation left for it.
LateSettlement(c) == isRefreshing

AbandonedSettles(c) ==
    /\ cyc[c].pc = "done"
    /\ LaterCycleRunning(c)
    /\ cyc[c].call = "pending"
    /\ cyc' = [cyc EXCEPT ![c].call = "settled"]
    /\ isRefreshing' = LateSettlement(c)
    /\ UNCHANGED <<cfg, owner, failedQueue, rq, nCycles, entries,
                   lock, storage, log>>

\* A stale timer whose rejection ends the refresh in progress.
StaleTimeout_Resets(c) == [isRefreshing EXCEPT ![cyc[c].inst] = FALSE]

\* The flag after the timer of a settled race has fired: the rejection of
\* timeoutPromise reaches a race that is already settled.
StaleTimeout(c) == isRefreshing

StaleTimerFires(c) ==
    /\ cyc[c].pc = "done"
    /\ LaterCycleRunning(c)
    /\ cyc[c].timer = "armed"
    /\ cyc' = [cyc EXCEPT ![c].timer = "fired"]
    /\ isRefreshing' = StaleTimeout(c)
    /\ UNCHANGED <<cfg, owner, failedQueue, rq, nCycles, entries,
                   lock, storage, log>>

Next ==
    \/ \E r \in Req : ResponseOk(r)
    \/ \E r \in Req, s \in Statuses : Propagate(r, s)
    \/ \E r \in Req, s \in Statuses : Join(r, s)
    \/ \E r \in Req, s \in Statuses : Trigger(r, s)
    \/ \E c \in Cyc : LockGrant(c)
    \/ \E c \in Cyc : CheckReturn(c)
    \/ \E c \in Cyc : RenewalResolves(c)
    \/ \E c \in Cyc, v \in RejectValues : RenewalRejects(c, v)
    \/ \E c \in Cyc : TimerFires(c)
    \/ \E c \in Cyc : AbandonedSettles(c)
    \/ \E c \in Cyc : StaleTimerFires(c)

Spec == Init /\ [][Next]_vars

\* Two execution contexts (tabs), each with its own installation, sharing
\* the named lock and the credential storage; request 1 is sent by the
\* first, every other request by either.
TabOwners == {o \in [Req -> Inst] : o[1] = 1}
InitTabs == InitWith({TabConfig}, TabOwners)
SpecTabs == InitTabs /\ [][Next]_vars

\* Two installations on two clients of one context, without and with the
\* named lock.
InitTwo == InitWith({DefaultConfig, BrowserConfig}, TabOwners)
SpecTwo == InitTwo /\ [][Next]_vars

\* One installation with a headerTokenHandler.
InitHeader == InitWith({HeaderConfig}, {[r \in Req |-> 1]})
SpecHeader == InitHeader /\ [][Next]_vars

\* One installation whose collaborators may throw.
InitThrow == InitWith({ThrowConfig}, {[r \in Req |-> 1]})
SpecThrow == InitThrow /\ [][Next]_vars

\* ------------------------------------------------------- history operators
LogIdx == 1..Len(log)
EntryIds == 1..Len(entries)

\* The cycles installation i has started.
CyclesOf(i) == {c \in 1..nCycles : cyc[c].inst = i}
\* Positions of the log at which cycle c did ev.
Events(c, ev) == {k \in LogIdx : log[k].cyc = c /\ log[k].ev = ev}
\* Invocations of requestRefresh made by installation i.
RefreshCalls(i) == {k \in LogIdx : log[k].ev = "refresh" /\ cyc[log[k].cyc].inst = i}
\* The cycles of installation i whose trigger has fired and whose
\* performRefresh has not finished (waiting for the lock included).
Active(i) == {c \in CyclesOf(i) : cyc[c].pc \in {"lock", "check", "race"}}
\* The entries that arrived while cycle c was the unsettled cycle.
ArrivedDuring(c) == {e \in EntryIds : entries[e].during = c}
\* How often a continuation (resolve or reject) of entry e was invoked.
SettleCount(e) ==
    Cardinality({k \in LogIdx : log[k].ev \in {"replay", "reject"} /\ log[k].ent = e})

\* --------------------------------------------------------------------- C1
\* C1: single-flight under a herd.  When at least two classified failures
\* have arrived and every one of them arrived before the refresh cycle
\* started by the first had settled, requestRefresh has been invoked at
\* most once, and exactly once as soon as that cycle has run its renewal
\* step (it has finished without a validity check configured, or it has
\* reported an outcome through onSuccess/onFailure).
Herd == Len(entries) >= 2 /\ \A e \in EntryIds : entries[e].during = 1

C1_SingleFlight ==
    Herd =>
      /\ Cardinality(RefreshCalls(1)) <= 1
      /\ (cyc[1].pc = "done" /\ ~cfg.check) => Cardinality(RefreshCalls(1)) = 1
      /\ (\E k \in LogIdx : log[k].ev \in {"onSuccess", "onFailure"})
            => Cardinality(RefreshCalls(1)) = 1

\* Both requests failed during the first cycle, the renewal resolved and
\* both were replayed: one invocation of requestRefresh.
C1_Witness ==
    /\ Herd
    /\ cyc[1].out = "resolved"
    /\ Cardinality(RefreshCalls(1)) = 1
    /\ Cardinality(Events(1, "replay")) = 2

\* --------------------------------------------------------------------- C2
\* C2 (as stated): when every request fails at most once with a trigger
\* status, requestRefresh is invoked at most once in total, wherever the
\* failures fall relative to the completion of the refresh.
EachFailsOnce ==
    \A e, f \in EntryIds : entries[e].req = entries[f].req => e = f

C3_OneProcedure ==
    \A i \in Inst :
      /\ Cardinality(Active(i)) <= 1
      /\ isRefreshing[i] <=> Cardinality(Active(i)) = 1

\* A second cycle is running after the first one has finished.
C3_Witness ==
    /\ nCycles = 2
    /\ cyc[1].pc = "done"
    /\ cyc[2].pc = "race"
    /\ isRefreshing[1]

\* --------------------------------------------------------------------- C4
\* C4 (as stated): at no time are two invocations of requestRefresh of one
\* installation both unsettled.
Unsettled(i) == {c \in CyclesOf(i) : cyc[c].call = "pending"}

C4_OneUnsettledCall == \A i \in Inst : Cardinality(Unsettled(i)) <= 1

\* C4 (amended): at no time are two invocations of requestRefresh of one
\* installation both awaited by a refresh procedure; every other unsettled
\* invocation belongs to a cycle that its timer has already ended.
Abandoned(c) == cyc[c].pc = "done" /\ cyc[c].out = "timeout"

C4_OneAwaitedCall ==
    \A i \in Inst :
      /\ Cardinality({c \in Unsettled(i) : ~Abandoned(c)}) <= 1
      /\ \A c \in Unsettled(i) : Abandoned(c) \/ cyc[c].pc = "race"

\* The renewal of a timed-out cycle is still pending while the next
\* cycle awaits its own.
C4_Witness ==
    /\ nCycles = 2
    /\ Abandoned(1) /\ cyc[1].call = "pending"
    /\ cyc[2].pc = "race" /\ cyc[2].call = "pending"

\* --------------------------------------------------------------------- C5
\* The entries created for cycle c (its trigger and its joiners).
EntriesOf(c) == {e \in EntryIds : entries[e].cyc = c}

\* C5: no entry is left dangling.  Once the refresh procedure of a cycle
\* has finished, whatever the renewal did (resolved, rejected with any
\* value, or timed out), every entry of that cycle has been settled.
C5_NoDangling ==
    \A c \in 1..nCycles :
      cyc[c].pc = "done" => \A e \in EntriesOf(c) : Settled(log, e)

\* --------------------------------------------------------------------- C6
\* C6: no entry is settled twice.  Over all cycles the continuations of an
\* entry have been invoked at most once in total, and no entry that a
\* drain has settled is in the queue of any installation.
C6_SettledOnce ==
    /\ \A e \in EntryIds : SettleCount(e) <= 1
    /\ \A i \in Inst : \A k \in 1..Len(failedQueue[i]) :
          ~Settled(log, failedQueue[i][k].id)

\* Two cycles have drained; the second one also settled an entry the
\* first had left in the queue, and every entry was settled once.
C6_Witness ==
    /\ nCycles = 2 /\ cyc[2].pc = "done"
    /\ \A e \in EntryIds : SettleCount(e) = 1
    /\ \E k \in LogIdx : /\ log[k].ev \in {"replay", "reject"}
                         /\ log[k].cyc = 2
                         /\ entries[log[k].ent].cyc = 1

\* --------------------------------------------------------------------- C7
\* The last continuation invoked for request r, 0 if none.
LastSettle(r) ==
    Max0({k \in LogIdx : log[k].ev \in {"replay", "reject"} /\ log[k].req = r})

\* C7: when the renewal resolves, every entry of the cycle (trigger and
\* joiners) is re-submitted, as its own request, carrying the new access
\* token; and a caller whose entry was resolved with a replay gets the
\* outcome of that replay: it is pending while the replay is in flight or
\* held again, fulfilled by the replay's response with the credential the
\* replay carried, or rejected with the replay's own failure.
C7_ReplayedWithNewToken ==
    /\ \A c \in 1..nCycles :
         cyc[c].out = "resolved" =>
           \A e \in EntriesOf(c) :
             \E k \in Events(c, "replay") :
               /\ log[k].ent = e
               /\ log[k].req = entries[e].req
               /\ log[k].tok = NewToken(c)
    /\ \A r \in Req :
         LET k == LastSettle(r)
         IN (k > 0 /\ log[k].ev = "replay") =>
              /\ rq[r].att >= 2
              /\ rq[r].st = "ok" => Credential(rq[r]) = log[k].tok
              /\ rq[r].st = "err" => rq[r].val.kind \in {"http", "network"}

\* Trigger and joiner were replayed with the token of the cycle and the
\* replays have answered: one succeeded, the other failed on its own.
C7_Witness ==
    /\ cyc[1].out = "resolved"
    /\ Cardinality(EntriesOf(1)) = 2
    /\ \E r, q \in Req :
         /\ rq[r].st = "ok" /\ Credential(rq[r]) = NewToken(1)
         /\ rq[q].st = "err" /\ rq[q].val = HttpError(Unauthorized) /\ rq[q].att = 2

\* --------------------------------------------------------------------- C8
\* C8: in a cycle whose renewal resolves (and wins the race), onSuccess is
\* invoked exactly once, with the returned tokens, before the replay of
\* every queued request.
C8_SuccessCallbackFirst ==
    \A c \in 1..nCycles :
      cyc[c].out = "resolved" =>
        /\ Cardinality(Events(c, "onSuccess")) = 1
        /\ Events(c, "replay") # {}
        /\ \A k \in Events(c, "onSuccess") :
             /\ log[k].tok = NewToken(c)
             /\ \A j \in Events(c, "replay") : k < j

\* A resolved cycle that replayed a trigger and a joiner.
C8_Witness ==
    \E c \in 1..nCycles :
      /\ cyc[c].out = "resolved"
      /\ Cardinality(Events(c, "onSuccess")) = 1
      /\ Cardinality(Events(c, "replay")) = 2

\* --------------------------------------------------------------------- C9
\* C9: when the renewal rejects, with whatever value, every entry of the
\* cycle is rejected with that value and none is replayed.
C9_RejectedWithSameValue ==
    \A c \in 1..nCycles :
      cyc[c].out = "rejected" =>
        \A e \in EntriesOf(c) :
          /\ \E k \in Events(c, "reject") : log[k].ent = e /\ log[k].val = cyc[c].err
          /\ \A k \in Events(c, "replay") : log[k].ent # e

\* -------------------------------------------------------------------- C10
\* C10: in a cycle that fails (renewal rejected, or timed out) onFailure
\* is invoked exactly once, with the failure value, before any queued
\* entry is rejected.
C10_FailureCallbackFirst ==
    \A c \in 1..nCycles :
      cyc[c].out \in {"rejected", "timeout"} =>
        /\ Cardinality(Events(c, "onFailure")) = 1
        /\ \A k \in Events(c, "onFailure") :
             /\ log[k].val = cyc[c].err
             /\ \A j \in Events(c, "reject") : k < j

\* -------------------------------------------------------------------- C11
\* The timeout value the integrator configured: refreshTimeout, or the
\* documented default when it is omitted.
ConfiguredTimeout ==
    IF cfg.refreshTimeout.set THEN cfg.refreshTimeout.ms ELSE DefaultTimeoutMs

C12_ReplayedCarryMarker ==
    /\ \A k \in LogIdx : log[k].ev = "replay" => rq[log[k].req].retry
    /\ \A e, f \in EntryIds : entries[e].req = entries[f].req => e = f

\* ----------------------------------------------- the handler, step by step
\* The error handler has run for request r in this step: its attempt was
\* in flight and has failed.
Handled(r) == rq[r].st = "flight" /\ rq'[r].st \in {"held", "err"}

\* The step left the refresh state of every installation as it was.
FlowUntouched ==
    UNCHANGED <<isRefreshing, failedQueue, cyc, nCycles, entries, lock, storage, log>>

\* The step appended one entry for request r to the queue of its
\* installation (it started a refresh or joined one).
Enqueued(r) ==
    /\ Len(entries') = Len(entries) + 1
    /\ entries'[Len(entries')].req = r
    /\ failedQueue'[owner[r]] = Append(failedQueue[owner[r]], entries'[Len(entries')])

\* The caller of r was rejected with the failure of the attempt itself.
RejectedWithOriginal(r) ==
    /\ rq'[r].st = "err"
    /\ rq'[r].val.kind \in {"http", "network"}
    /\ rq'[r] = [rq[r] EXCEPT !.st = "err", !.val = rq'[r].val]

\* -------------------------------------------------------------------- C13
\* C13: when the attempt of a request that carries the retry marker fails,
\* with whatever status and whether or not a refresh is in progress, its
\* caller is rejected with that failure, no refresh is started and the
\* request is not enqueued.
C13_MarkedIsPropagated ==
    [][\A r \in Req :
         (Handled(r) /\ rq[r].retry) =>
            /\ RejectedWithOriginal(r)
            /\ ~Enqueued(r)
            /\ FlowUntouched]_vars

\* The replay of the first trigger failed again with 401 and was
\* propagated; the only refresh after that is the one request 2 started.
C13_Witness ==
    /\ rq[1].retry /\ rq[1].att = 2
    /\ rq[1].st = "err" /\ rq[1].val = HttpError(Unauthorized)
    /\ Cardinality({e \in EntryIds : entries[e].req = 1}) = 1
    /\ nCycles = 2 /\ cyc[2].pc = "race" /\ isRefreshing[1]

\* -------------------------------------------------------------------- C14
\* C14: when the attempt of a request carrying skipAuthRefresh fails, with
\* whatever status and whether or not a refresh is in progress, its
\* caller observes that failure, the request is not enqueued and no
\* refresh (hence no requestRefresh call) is started; no entry ever
\* belongs to such a request.
C14_OptOut ==
    [][\A r \in Req :
         /\ (Handled(r) /\ rq[r].skip) =>
               /\ RejectedWithOriginal(r)
               /\ ~Enqueued(r)
               /\ FlowUntouched
         /\ \A e \in 1..Len(entries') : ~rq[entries'[e].req].skip]_vars

\* The opted-out request failed with 401 while the refresh the other
\* request started was in progress, and was rejected with its own 401.
C14_Witness ==
    /\ rq[NReq].skip
    /\ rq[NReq].st = "err" /\ rq[NReq].val = HttpError(Unauthorized)
    /\ cyc[1].pc = "race" /\ isRefreshing[1]
    /\ Cardinality(RefreshCalls(1)) = 1
    /\ Len(failedQueue[1]) = 1

\* -------------------------------------------------------------------- C15
\* The conditions of the classifier, read from the failure the handler
\* received (kept in val) and the descriptor as it was before the step.
Accepted(r) ==
    /\ rq'[r].val.kind = "http"
    /\ rq'[r].val.n \in (IF cfg.codes THEN {Unauthorized, 403} ELSE {Unauthorized})
    /\ ~rq[r].skip
    /\ ~rq[r].retry

\* C15: a failure enters the refresh flow (the request is enqueued and its
\* caller held) if and only if a response was received, its status is in
\* the configured set, and the request carries neither skipAuthRefresh
\* nor the retry marker; otherwise the caller is rejected with the
\* original failure and the refresh state is untouched.
C15_Classifier ==
    [][\A r \in Req :
         Handled(r) =>
            /\ Accepted(r) <=> (rq'[r].st = "held" /\ Enqueued(r))
            /\ ~Accepted(r) => (RejectedWithOriginal(r) /\ FlowUntouched)]_vars

\* With statusCodes [401, 403]: one request entered the flow on a 403,
\* the other was rejected with its network error.
C15_Witness ==
    /\ cfg.codes
    /\ \E r, q \in Req :
         /\ rq[r].st = "held" /\ rq[r].val = HttpError(403)
         /\ rq[q].st = "err" /\ rq[q].val = HttpError(0) /\ rq[q].att = 1
         /\ \A e \in EntryIds : entries[e].req = r

\* -------------------------------------------------------------------- C16
\* The cycles whose drain had a credential to attach.
WithCredential(c) == cyc[c].out \in {"resolved", "reused"}

\* C16: with attachTokenToRequest configured the default Authorization
\* header of a request is never written (it stays as the call site set
\* it) and a request replayed with a credential carries it in the header
\* the custom function writes; without it the replayed request carries
\* the credential in the default header and no other header is written.
\* The attacher is called once per replayed entry, with the entry's own
\* request and the cycle's access token, right before the replay.
C16_CustomAttacherOnly ==
    /\ \A r \in Req :
         LET k == LastSettle(r)
             replayed == k > 0 /\ log[k].ev = "replay" /\ WithCredential(log[k].cyc)
         IN IF cfg.attach
            THEN /\ rq[r].auth = OldToken
                 /\ replayed => rq[r].xkey = log[k - 1].tok
            ELSE /\ rq[r].xkey = NoToken
                 /\ replayed => rq[r].auth = log[k - 1].tok
    /\ \A k \in LogIdx :
         (log[k].ev = "replay" /\ WithCredential(log[k].cyc)) =>
            /\ k > 1
            /\ log[k - 1].ev = "attach"
            /\ log[k - 1].ent = log[k].ent /\ log[k - 1].req = log[k].req
            /\ log[k - 1].tok = (IF cyc[log[k].cyc].out = "resolved"
                                 THEN NewToken(log[k].cyc)
                                 ELSE cyc[log[k].cyc].validToken.tok)

\* With a custom attacher: a replayed request succeeded carrying the new
\* token in the custom header, its Authorization header untouched.
C16_Witness ==
    /\ cfg.attach
    /\ cyc[1].out = "resolved"
    /\ \E r \in Req : /\ rq[r].st = "ok" /\ rq[r].att = 2
                       /\ rq[r].xkey = NewToken(1) /\ rq[r].auth = OldToken

\* -------------------------------------------------------------------- C17
NonEmptyString(v) == v.k = "string" /\ v.tok # NoToken

\* C17: with checkTokenIsValid configured, a cycle that has passed the
\* check skipped requestRefresh if and only if the check returned a
\* non-empty string; such a cycle replayed the whole queue carrying that
\* string and rejected nothing; a cycle whose check returned null, false
\* or an empty string went on to invoke requestRefresh once.
C17_SkipIffValidString ==
    \A c \in 1..nCycles :
      (cfg.check /\ cyc[c].pc \in {"race", "done"} /\ cyc[c].out # "threw") =>
        /\ cyc[c].out = "reused" <=> NonEmptyString(cyc[c].validToken)
        /\ cyc[c].out = "reused" <=> Events(c, "refresh") = {}
        /\ cyc[c].out # "reused" => Cardinality(Events(c, "refresh")) = 1
        /\ cyc[c].pc = "race" =>
              /\ cyc[c].validToken.k \in {"null", "false", "string"}
              /\ cyc[c].validToken.tok = NoToken
        /\ cyc[c].out = "reused" =>
              /\ \A e \in EntryIds : entries[e].cyc <= c => Settled(log, e)
              /\ \A e \in EntriesOf(c) :
                    \E k \in Events(c, "replay") :
                       log[k].ent = e /\ log[k].tok = cyc[c].validToken.tok
              /\ Events(c, "reject") = {}

\* The first cycle reused the credential a sibling persisted for both of
\* its entries; in the second the check returned an empty string and
\* requestRefresh was invoked.
C17_Witness ==
    /\ cfg.check
    /\ cyc[1].out = "reused" /\ cyc[1].validToken.tok = SiblingToken
    /\ Cardinality({k \in Events(1, "replay") : log[k].tok = SiblingToken}) = 2
    /\ Events(1, "refresh") = {}
    /\ nCycles = 2 /\ cyc[2].pc = "race"
    /\ cyc[2].validToken = CheckVal("string", NoToken)
    /\ Cardinality(Events(2, "refresh")) = 1

\* -------------------------------------------------------------------- C18
\* The cycle that entered the refresh procedure first.
First(c) == \A d \in 1..nCycles : \A k \in Events(c, "check"), j \in Events(d, "check") : k <= j

\* C18: across contexts sharing the lock and the storage, when the cycle
\* that enters the refresh procedure first has its renewal succeed, no
\* cycle of another context ever invokes requestRefresh: once granted the
\* lock its check returns the credential the first one persisted and the
\* cycle reuses it for its queue.
C18_OneContextRenews ==
    \A c, d \in 1..nCycles :
      (/\ Events(c, "check") # {} /\ First(c)
       /\ cyc[c].out = "resolved"
       /\ cyc[d].inst # cyc[c].inst) =>
         /\ Events(d, "refresh") = {}
         /\ cyc[d].pc \in {"lock", "check", "done"}
         /\ cyc[d].pc = "done" =>
               /\ cyc[d].out = "reused"
               /\ \E k \in 1..nCycles : /\ cyc[k].out = "resolved"
                                        /\ cyc[d].validToken.tok = NewToken(k)
               /\ \A e \in EntriesOf(d) :
                     \E k \in Events(d, "replay") :
                        log[k].ent = e /\ log[k].tok = cyc[d].validToken.tok

\* Each context had one failure; the first renewed, the second reused
\* the persisted credential: one invocation of requestRefresh in all.
C18_Witness ==
    /\ owner[1] # owner[2]
    /\ nCycles = 2 /\ cyc[1].inst # cyc[2].inst
    /\ cyc[1].out = "resolved"
    /\ cyc[2].out = "reused" /\ cyc[2].validToken.tok = NewToken(1)
    /\ Cardinality({k \in LogIdx : log[k].ev = "refresh"}) = 1
    /\ rq[2].st = "ok" /\ Credential(rq[2]) = NewToken(1)

\* -------------------------------------------------------------------- C19
\* The exit paths of the refresh procedure.
ExitPaths == {"reused", "resolved", "rejected", "timeout"}

\* Every cycle installation i started has completed.
AllCompleted(i) ==
    /\ CyclesOf(i) # {}
    /\ \A c \in CyclesOf(i) : cyc[c].pc = "done" /\ cyc[c].out \in ExitPaths

\* C19: whichever way the refresh procedure was left (validity
\* short-circuit, renewal resolved, renewal rejected with any value,
\* timeout) its finally block has run once and, once every cycle of an
\* installation has completed, isRefreshing is false; a classified failure
\* handled in that state starts a new refresh cycle and is its trigger.
C19_FlagResetOnEveryExit ==
    [][/\ \A i \in Inst :
            AllCompleted(i)' =>
               /\ ~isRefreshing'[i]
               /\ \A c \in CyclesOf(i)' : Cardinality(Events(c, "finally")') = 1
       /\ \A r \in Req :
            (Handled(r) /\ Accepted(r) /\ AllCompleted(owner[r])) =>
               /\ nCycles' = nCycles + 1
               /\ cyc'[nCycles'].inst = owner[r]
               /\ cyc'[nCycles'].pc # "done"
               /\ isRefreshing'[owner[r]]
               /\ entries'[Len(entries')] =
                     Entry(Len(entries'), r, nCycles', nCycles')]_vars

\* After a cycle that took the validity short-circuit, a later failure
\* has started a second cycle.
C19_Witness ==
    /\ nCycles = 2
    /\ cyc[1].pc = "done" /\ cyc[1].out = "reused"
    /\ cyc[2].pc = "check"
    /\ entries[Len(entries)].cyc = 2
    /\ isRefreshing[1]

\* -------------------------------------------------------------------- C20
\* C20: every classified failure that arrives while a cycle is unsettled
\* (its trigger has run and its procedure has not finished, waits for the
\* lock, the check and the renewal included) joins that cycle, and once
\* the cycle has finished every one of its entries has been settled by
\* that cycle's own drain; no failure arrives to find isRefreshing false
\* while entries of an earlier cycle are still queued.
C20_ArrivalsDrainedBySameCycle ==
    /\ \A e \in EntryIds : entries[e].during = entries[e].cyc
    /\ \A c \in 1..nCycles :
         cyc[c].pc = "done" =>
           \A e \in EntriesOf(c) :
             \E k \in Events(c, "replay") \cup Events(c, "reject") : log[k].ent = e
    /\ \A i \in Inst : ~isRefreshing[i] => failedQueue[i] = <<>>

\* -------------------------------------------------------------------- C21
\* C21: a classified failure handled while isRefreshing is true appends
\* exactly one entry for its request at the tail of the queue and changes
\* nothing else: the flag stays true, no cycle starts or moves, nothing
\* is invoked (no renewal, check or callback), and the descriptor keeps
\* its retry marker and headers.
C21_JoinOnlyAppends ==
    [][\A r \in Req :
         (Handled(r) /\ Accepted(r) /\ isRefreshing[owner[r]]) =>
            /\ Enqueued(r)
            /\ \A i \in Inst \ {owner[r]} : failedQueue'[i] = failedQueue[i]
            /\ isRefreshing' = isRefreshing /\ isRefreshing'[owner[r]]
            /\ UNCHANGED <<cyc, nCycles, lock, storage, log>>
            /\ rq'[r].retry = rq[r].retry
            /\ rq'[r].auth = rq[r].auth /\ rq'[r].xkey = rq[r].xkey
            /\ \A q \in Req \ {r} : rq'[q] = rq[q]]_vars

\* The second request joined the cycle of the first: it is queued behind
\* the trigger, unmarked, while the one renewal call is pending.
C21_Witness ==
    /\ Len(failedQueue[1]) = 2
    /\ failedQueue[1][1].req = 1 /\ failedQueue[1][2].req = 2
    /\ rq[2].st = "held" /\ ~rq[2].retry /\ rq[2].auth = OldToken
    /\ nCycles = 1 /\ cyc[1].pc = "race"
    /\ Cardinality(RefreshCalls(1)) = 1

\* -------------------------------------------------------------------- C22
\* C22: a failure the classifier does not accept is rejected in the step
\* that handles it, with isRefreshing and the queue of every installation
\* left as they were, also when a refresh is in progress.
C22_RejectedAtOnce ==
    [][\A r \in Req :
         (Handled(r) /\ ~Accepted(r)) =>
            /\ rq'[r].st = "err"
            /\ rq'[r].val.kind \in {"http", "network"}
            /\ isRefreshing' = isRefreshing
            /\ failedQueue' = failedQueue]_vars

\* A 403 outside the default set was rejected while the refresh started
\* by the other request was still in progress.
C22_Witness ==
    /\ ~cfg.codes
    /\ \E r, q \in Req :
         /\ rq[q].st = "err" /\ rq[q].val = HttpError(403) /\ ~rq[q].skip
         /\ rq[r].st = "held"
         /\ Len(failedQueue[1]) = 1 /\ failedQueue[1][1].req = r
    /\ isRefreshing[1] /\ cyc[1].pc = "race"

\* -------------------------------------------------------------------- C23
\* C23: once the timer has won a race, the later settlement of the
\* abandoned requestRefresh call changes nothing, a newer cycle being in
\* progress or not: no callback runs, no entry is settled, the flag and
\* the queues stay as they are; and a timed-out cycle has drained and
\* reset the flag exactly once.
C23_LateSettlementIgnored ==
    [][/\ \A c \in 1..nCycles :
            (Abandoned(c) /\ cyc[c].call = "pending" /\ cyc'[c].call = "settled") =>
               UNCHANGED <<isRefreshing, failedQueue, rq, log, storage, lock,
                           nCycles, entries>>
       /\ \A c \in 1..nCycles :
            cyc'[c].out = "timeout" =>
               /\ Cardinality(Events(c, "finally")') = 1
               /\ Cardinality(Events(c, "onFailure")') = 1
               /\ Events(c, "onSuccess")' = {}
               /\ \A e \in EntriesOf(c)' : SettleCount(e)' = 1]_vars

\* The abandoned call of the timed-out first cycle settled while the
\* second cycle was awaiting its own renewal.
C23_Witness ==
    /\ nCycles = 2
    /\ Abandoned(1) /\ cyc[1].call = "settled"
    /\ cyc[2].pc = "race" /\ isRefreshing[1]
    /\ Len(failedQueue[1]) = 1

\* -------------------------------------------------------------------- C24
\* C24 (as stated): a cycle that took the validity short-circuit invoked
\* onSuccess once, with the reused credential, before its replays.
C24_ShortCircuitCallsOnSuccess ==
    \A c \in 1..nCycles :
      cyc[c].out = "reused" =>
        /\ Cardinality(Events(c, "onSuccess")) = 1
        /\ \A k \in Events(c, "onSuccess") :
             /\ log[k].tok = cyc[c].validToken.tok
             /\ \A j \in Events(c, "replay") : k < j

\* C24 (amended): a cycle that took the validity short-circuit drains the
\* queue with the credential the check returned and invokes no callback
\* at all, neither onSuccess nor onFailure, nor requestRefresh.
C24_ShortCircuitNoCallback ==
    \A c \in 1..nCycles :
      cyc[c].out = "reused" =>
        /\ Events(c, "onSuccess") = {} /\ Events(c, "onFailure") = {}
        /\ Events(c, "refresh") = {}
        /\ Events(c, "replay") # {}
        /\ \A k \in Events(c, "replay") : log[k].tok = cyc[c].validToken.tok
        /\ \A k \in Events(c, "finally") :
             \A j \in Events(c, "replay") : j < k

\* A short-circuited cycle replayed trigger and joiner without a callback.
C24_Witness ==
    /\ cyc[1].out = "reused"
    /\ Cardinality(Events(1, "replay")) = 2
    /\ \A k \in LogIdx : log[k].ev \notin {"onSuccess", "onFailure"}
    /\ \A r \in Req : rq[r].st = "ok"

FirstSettle(e) ==
    LET S == {k \in LogIdx : log[k].ev \in {"replay", "reject"} /\ log[k].ent = e}
    IN IF S = {} THEN 0 ELSE CHOOSE x \in S : \A y \in S : x <= y

\* The entries cycle c settled.
SettledBy(c) == {e \in EntryIds : FirstSettle(e) > 0 /\ log[FirstSettle(e)].cyc = c}

\* C26: a drain is all-or-nothing.  The entries a cycle settled were all
\* replayed or all rejected, whatever the collaborators did (a token
\* attacher that throws part-way through the queue included).
C26_AllOrNothing ==
    \A c \in 1..nCycles :
      \A e, f \in SettledBy(c) : log[FirstSettle(e)].ev = log[FirstSettle(f)].ev

\* -------------------------------------------------------------------- C27
\* The continuations the drain of cycle c invoked.
DrainOf(c) == Events(c, "replay") \cup Events(c, "reject")

\* C27: the drain of a cycle settles entries in the order their failures
\* arrived (entry ids are given in arrival order), and the first entry it
\* settles is the one of the cycle's triggering request.
C27_ArrivalOrderTriggerFirst ==
    \A c \in 1..nCycles :
      /\ \A k, j \in DrainOf(c) : k < j => log[k].ent < log[j].ent
      /\ \A k \in DrainOf(c) :
           (\A j \in DrainOf(c) : k <= j) =>
              /\ entries[log[k].ent].cyc = c
              /\ \A e \in EntriesOf(c) : log[k].ent <= e

\* -------------------------------------------------------------------- C28
\* The cycles that are inside performRefresh.
Inside == {c \in 1..nCycles : cyc[c].pc \in {"check", "race"}}

\* C28: with the named lock available, at most one cycle of all contexts
\* is inside the refresh procedure, and it is the holder of the lock: the
\* lock is held from the start of performRefresh until the procedure has
\* drained and reset the flag, and by nobody else.
C28_LockExcludes ==
    /\ Cardinality(Inside) <= 1
    /\ \A c \in Inside : lock = c
    /\ lock # 0 => lock \in Inside
    /\ \A c \in 1..nCycles :
         cyc[c].pc = "done" =>
           /\ lock # c
           /\ Cardinality(Events(c, "finally")) = 1
           /\ ~(\E d \in Inside : cyc[d].inst = cyc[c].inst /\ d < c)

\* One context is awaiting its renewal with the lock held while the
\* other, whose request has also failed, waits for the lock.
C28_Witness ==
    /\ nCycles = 2 /\ cyc[1].inst # cyc[2].inst
    /\ cyc[1].pc = "race" /\ lock = 1
    /\ cyc[2].pc = "lock"
    /\ isRefreshing[1] /\ isRefreshing[2]

\* -------------------------------------------------------------------- C29
\* C29: refresh state is per installation.  A classified failure handled
\* while its own installation is not refreshing starts a cycle of that
\* installation, whatever the other installation is doing, and touches
\* neither the flag nor the queue of the other; every entry is queued,
\* and every continuation invoked, by a cycle of the installation that
\* owns the request.
C29_PerInstallation ==
    [][/\ \A r \in Req :
            (Handled(r) /\ Accepted(r) /\ ~isRefreshing[owner[r]]) =>
               /\ nCycles' = nCycles + 1
               /\ cyc'[nCycles'].inst = owner[r]
               /\ isRefreshing'[owner[r]]
               /\ \A i \in Inst \ {owner[r]} :
                     /\ isRefreshing'[i] = isRefreshing[i]
                     /\ failedQueue'[i] = failedQueue[i]
       /\ \A i \in Inst : \A k \in 1..Len(failedQueue'[i]) :
            owner[failedQueue'[i][k].req] = i
       /\ \A e \in 1..Len(entries') :
            /\ entries'[e].cyc \in 1..nCycles'
            /\ cyc'[entries'[e].cyc].inst = owner[entries'[e].req]
       /\ \A k \in 1..Len(log') :
            log'[k].ev \in {"replay", "reject"} =>
               cyc'[log'[k].cyc].inst = owner[log'[k].req]]_vars

\* Both installations are refreshing at once, each with its own request
\* queued and its own renewal call pending.
C29_Witness ==
    /\ ~cfg.locks
    /\ owner[1] = 1 /\ owner[2] = 2
    /\ isRefreshing[1] /\ isRefreshing[2]
    /\ cyc[1].pc = "race" /\ cyc[2].pc = "race"
    /\ Len(failedQueue[1]) = 1 /\ Len(failedQueue[2]) = 1
    /\ Cardinality(RefreshCalls(1)) = 1 /\ Cardinality(RefreshCalls(2)) = 1

\* -------------------------------------------------------------------- C30
\* C30: whenever isRefreshing is false the queue is empty, whatever the
\* renewal did: no cycle ends leaving entries behind, so no entry is ever
\* settled by a cycle other than its own.
C30_IdleMeansEmpty ==
    /\ \A i \in Inst : ~isRefreshing[i] => Len(failedQueue[i]) = 0
    /\ \A e \in EntryIds :
         FirstSettle(e) > 0 => log[FirstSettle(e)].cyc = entries[e].cyc

\* -------------------------------------------------------------------- C31
\* C31: within one cycle at most one of onSuccess and onFailure is
\* invoked, and each at most once, whatever the collaborators do (an
\* onSuccess or a token attacher that throws included).
C31_OneCallbackPerCycle ==
    \A c \in 1..nCycles :
      /\ Cardinality(Events(c, "onSuccess")) <= 1
      /\ Cardinality(Events(c, "onFailure")) <= 1
      /\ Events(c, "onSuccess") = {} \/ Events(c, "onFailure") = {}

RenewalWon(c) == cyc[c].pc = "done" /\ cyc[c].out \in {"resolved", "rejected"}

\* C33: the timer of a cycle whose renewal settled first is not cancelled
\* (it is still armed once the procedure has finished), and when it fires
\* while a later cycle is in progress nothing else changes: the queue is
\* not rejected, no callback is invoked, the flag is not reset.
C33_StaleTimerHarmless ==
    [][\A c \in 1..nCycles :
         /\ (cyc[c].pc = "race" /\ RenewalWon(c)') => cyc'[c].timer = "armed"
         /\ (RenewalWon(c) /\ cyc[c].timer = "armed" /\ cyc'[c].timer # "armed") =>
               /\ cyc'[c].timer = "fired"
               /\ UNCHANGED <<isRefreshing, failedQueue, rq, log, storage, lock,
                               nCycles, entries>>]_vars

\* The timer of the first cycle, whose renewal had resolved, fired while
\* the second cycle was awaiting its renewal with its trigger queued.
C33_Witness ==
    /\ nCycles = 2
    /\ cyc[1].out = "resolved" /\ cyc[1].timer = "fired"
    /\ cyc[2].pc = "race" /\ cyc[2].timer = "armed"
    /\ isRefreshing[1] /\ Len(failedQueue[1]) = 1
    /\ Events(2, "onFailure") = {}

\* -------------------------------------------------------------------- C34
\* The credential cycle c drained its queue with.
CredentialOf(c) ==
    IF cyc[c].out = "resolved" THEN NewToken(c) ELSE cyc[c].validToken.tok

C35_TimerIsConfigured ==
    \A c \in 1..nCycles :
      cyc[c].timer # "none" =>
        /\ TIMEOUT_MS = ConfiguredTimeout
        /\ TIMEOUT_MS = DefaultTimeoutMs => ~cfg.refreshTimeout.set

====
